---------------------------- MODULE Spec2Model ----------------------------
(***************************************************************************)
(* State-machine model of generator/core.py: the Generator object          *)
(* (load_model, save_model, generate) and the adversarial training loop    *)
(* train().  The network weights are abstracted to a pair                  *)
(* (init, steps): the random initialisation they started from and the      *)
(* number of optimizer updates applied since.  The global random number    *)
(* generator of the numeric framework is a small deterministic state       *)
(* machine.  train() is split at the points where an exception can leave   *)
(* it, so that an aborted run is a reachable state.                        *)
(***************************************************************************)
EXTENDS Integers, Sequences, FiniteSets, TLC

(* ------------------------------ bounds -------------------------------- *)
\* config.training.epochs ranges over 0..MaxEpochs
MaxEpochs == 2
\* len(data_loader) ranges over 0..MaxBatches
MaxBatches == 2
\* config.training.d_loop_num is MaxLoop, g_loop_num is MaxLoop - 1
MaxLoop == 2
\* number of states of the random number generator
RngMod == 3
\* seeds passed to generate() range over 0..MaxSeed
MaxSeed == 1
\* train() calls made on one Generator object
MaxTrains == 1

(* base learning rates and decay factors, in abstract integer units *)
d_learning_rate == 5
g_learning_rate == 7
d_lr_gamma == 2
g_lr_gamma == 3

\* self.model and g_model refer to at most two distinct network objects
ObjIds == {1, 2}
\* None, for an object reference, a seed, a latent vector and a loss
NoObj == 0
NoSeed == -1
NoLatent == -1
NoLoss == 0

Seeds == 0..MaxSeed
RngStates == 0..(RngMod - 1)
\* explicit latent vectors a caller passes to generate()
Latents == {0}

VARIABLES
    config,               \* the configuration module read by train()
    heap,                 \* network objects: weights and training flag
    self_model,           \* self.model: an object id, or NoObj for None
    model_file,           \* the checkpoint file at self.model_path
    rng,                  \* state of the global random number generator
    pc,                   \* position inside train(), "idle" outside it
    g_model,              \* train()'s local g_model (object id)
    d_updates,            \* optimizer updates applied to d_model
    epoch, idx, k,        \* loop counters of train()
    d_loss, g_loss,       \* last loss returned in the current batch
    d_losses, g_losses,   \* loss histories
    d_lr, g_lr,           \* optimizer learning rates
    d_last_epoch, g_last_epoch, \* scheduler step counters
    fixed_latent_vector,  \* latent batch of the sample grid
    samples,              \* sample-grid files E<n>.jpg
    losses_plot,          \* losses.jpg
    outcome,              \* how the last call ended
    trains,               \* number of train() calls made
    round_trip,           \* a save_model() directly followed by load_model()
    probe                 \* outputs of generate(seed = S) for one seed S over
                          \* consecutive generate() calls

vars == <<config, heap, self_model, model_file, rng, pc, g_model, d_updates,
          epoch, idx, k, d_loss, g_loss, d_losses, g_losses, d_lr, g_lr,
          d_last_epoch, g_last_epoch, fixed_latent_vector, samples,
          losses_plot, outcome, trains, round_trip, probe>>

(* --------------------------- pure helpers ------------------------------ *)

\* torch.randn: the value drawn is a function of the generator state
randn(r) == r

\* the generator state after n draws
advance(r, n) == (r + n) % RngMod

\* torch.manual_seed(seed): the state depends on the seed alone
manual_seed_keep(seed) == rng
manual_seed(seed) == seed % RngMod

FreeObj == [alloc |-> FALSE, init |-> 0, steps |-> 0, training |-> FALSE]

\* models.Generator(): a new module, randomly initialised, in training mode
NewModule(r) == [alloc |-> TRUE, init |-> randn(r), steps |-> 0, training |-> TRUE]

\* an object id referenced by neither self.model nor g_model
NewId(used) == CHOOSE i \in ObjIds : i \notin used /\ \A j \in ObjIds \ used : i <= j

\* drop the objects no reference reaches
Collect(h, live) == [i \in ObjIds |-> IF i \in live THEN h[i] ELSE FreeObj]

NoFile == [exists |-> FALSE, data |-> <<>>]

\* module.state_dict() as written by torch.save
state_dict_stale(m) == <<m.init, 0>>
state_dict(m) == <<m.init, m.steps>>

\* module.load_state_dict(torch.load(path))
load_state_dict_partial(m, data) == [m EXCEPT !.init = data[1]]
load_state_dict(m, data) == [m EXCEPT !.init = data[1], !.steps = data[2]]

\* the network's forward pass: a function of the weights and the input
forward(m, z) == <<m.init, m.steps, z>>


(* --------------------------- configuration ----------------------------- *)

\* config.training.d_milestones / g_milestones: lists of epoch numbers, one
\* per network
MilestoneChoices == {<<{1}, {2}>>, <<{1, 2}, {}>>}

Configs ==
    {[epochs |-> e, batches |-> b, d_loop_num |-> kd, g_loop_num |-> kg,
      d_milestones |-> m[1], g_milestones |-> m[2]] :
        e \in 0..MaxEpochs,
        b \in 0..MaxBatches,           \* len(data_loader), drop_last = True
        kd \in {MaxLoop}, kg \in {MaxLoop - 1},
        m \in MilestoneChoices}

NoRoundTrip == [stage |-> "none", w |-> <<0, 0>>]

NoProbe == [n |-> 0, seed |-> 0, w |-> <<0, 0>>, first |-> <<0, 0, 0>>,
            last |-> <<0, 0, 0>>, between |-> FALSE]

NoOutcome == [op |-> "none", exc |-> "none"]
Ok(op) == [op |-> op, exc |-> "none"]
Raised(op, exc) == [op |-> op, exc |-> exc]

\* Generator.__init__ (a checkpoint file may be left by an earlier process)
Init ==
    /\ config \in Configs
    /\ heap = [i \in ObjIds |-> FreeObj]
    /\ self_model = NoObj
    /\ model_file \in {NoFile, [exists |-> TRUE, data |-> <<0, 1>>]}
    /\ rng \in RngStates
    /\ pc = "idle"
    /\ g_model = NoObj
    /\ d_updates = 0
    /\ epoch = 0 /\ idx = 0 /\ k = 0
    /\ d_loss = NoLoss /\ g_loss = NoLoss
    /\ d_losses = <<>> /\ g_losses = <<>>
    /\ d_lr = 0 /\ g_lr = 0
    /\ d_last_epoch = 0 /\ g_last_epoch = 0
    /\ fixed_latent_vector = 0
    /\ samples = [e \in 1..MaxEpochs |-> NoFile]
    /\ losses_plot = NoFile
    /\ outcome = NoOutcome
    /\ trains = 0
    /\ round_trip = NoRoundTrip
    /\ probe = NoProbe

train_locals == <<g_model, d_updates, epoch, idx, k, d_loss, g_loss, d_losses,
                  g_losses, d_lr, g_lr, d_last_epoch, g_last_epoch,
                  fixed_latent_vector>>
artifacts == <<samples, losses_plot, trains>>

Weights(m) == <<m.init, m.steps>>

(* ----------------------- load_model / save_model ----------------------- *)

\* load_model(): self.model is rebound to a new module before the file is
\* read, so a failing torch.load leaves the new module in place
load_model ==
    /\ pc = "idle"
    /\ LET id == NewId({})
           fresh == NewModule(rng)
       IN  /\ self_model' = id
           /\ rng' = advance(rng, 1)
           /\ IF model_file.exists
                THEN /\ heap' = Collect([heap EXCEPT ![id] =
                                  [load_state_dict(fresh, model_file.data)
                                     EXCEPT !.training = FALSE]], {id})
                     /\ outcome' = Ok("load_model")
                     /\ round_trip' = IF round_trip.stage = "saved"
                                        THEN [round_trip EXCEPT !.stage = "loaded"]
                                        ELSE NoRoundTrip
                ELSE /\ heap' = Collect([heap EXCEPT ![id] = fresh], {id})
                     /\ outcome' = Raised("load_model", "FileNotFoundError")
                     /\ round_trip' = NoRoundTrip
    /\ probe' = NoProbe
    /\ UNCHANGED <<config, model_file, pc, train_locals, artifacts>>

\* save_model(): torch.save(self.model.state_dict(), self.model_path)
save_model_file(m) == [exists |-> TRUE, data |-> state_dict(m)]

save_model ==
    /\ pc = "idle"
    /\ IF self_model = NoObj
         THEN /\ outcome' = Raised("save_model", "AttributeError")
              /\ round_trip' = NoRoundTrip
              /\ UNCHANGED model_file
         ELSE /\ model_file' = save_model_file(heap[self_model])
              /\ outcome' = Ok("save_model")
              /\ round_trip' = [stage |-> "saved", w |-> Weights(heap[self_model])]
    /\ probe' = NoProbe
    /\ UNCHANGED <<config, heap, self_model, rng, pc, train_locals, artifacts>>

(* ------------------------------ generate ------------------------------- *)

\* what a caller comparing the outputs of generate(seed = S) has seen in the
\* current run of generate() calls: the first and the latest output for S
NoteCall(old, seed, latent_vector, w, out) ==
    IF old.n = 0 \/ old.w # w
      THEN IF seed # NoSeed /\ latent_vector = NoLatent
             THEN [n |-> 1, seed |-> seed, w |-> w, first |-> out, last |-> out,
                   between |-> FALSE]
             ELSE NoProbe
      ELSE IF seed = old.seed /\ latent_vector = NoLatent
             THEN [old EXCEPT !.n = 2, !.last = out]
             ELSE [old EXCEPT !.between = TRUE]

generate(seed, latent_vector) ==
    /\ pc = "idle"
    /\ round_trip' = NoRoundTrip
    /\ LET r1 == IF seed # NoSeed THEN manual_seed(seed) ELSE rng
           z  == IF latent_vector = NoLatent THEN randn(r1) ELSE latent_vector
           r2 == IF latent_vector = NoLatent THEN advance(r1, 1) ELSE r1
       IN  /\ rng' = r2
           /\ IF self_model = NoObj
                THEN /\ outcome' = Raised("generate", "TypeError")
                     /\ UNCHANGED probe
                ELSE /\ outcome' = Ok("generate")
                     /\ probe' = NoteCall(probe, seed, latent_vector,
                                          Weights(heap[self_model]),
                                          forward(heap[self_model], z))
    /\ UNCHANGED <<config, heap, self_model, model_file, pc, train_locals, artifacts>>

Generate == \E seed \in Seeds \cup {NoSeed}, z \in Latents \cup {NoLatent} : generate(seed, z)

(* ------------------------------- train --------------------------------- *)

\* MultiStepLR.get_lr(): decay by gamma when the step counter is a milestone
MultiStepLR_every(lr, last_epoch, milestones, gamma) == lr * gamma
MultiStepLR_get_lr(lr, last_epoch, milestones, gamma) ==
    IF last_epoch \in milestones THEN lr * gamma ELSE lr

\* the locals of train() go out of scope when it returns or raises
LeaveTrain(h, live) ==
    /\ pc' = "idle"
    /\ heap' = Collect(h, live)
    /\ g_model' = NoObj
    /\ d_updates' = 0
    /\ epoch' = 0 /\ idx' = 0 /\ k' = 0
    /\ d_loss' = NoLoss /\ g_loss' = NoLoss
    /\ d_losses' = <<>> /\ g_losses' = <<>>
    /\ d_lr' = 0 /\ g_lr' = 0
    /\ d_last_epoch' = 0 /\ g_last_epoch' = 0
    /\ fixed_latent_vector' = 0

\* lines 61-116: data loader, both networks (constructor and init_weights draw
\* from the generator), optimizers, schedulers, histories, fixed latent batch
TrainPrepare ==
    /\ pc = "idle"
    /\ trains < MaxTrains
    /\ trains' = trains + 1
    /\ LET id == NewId({self_model})
       IN  /\ g_model' = id
           /\ heap' = [heap EXCEPT ![id] = NewModule(advance(rng, 3))]
    /\ d_updates' = 0
    /\ d_last_epoch' = 0 /\ g_last_epoch' = 0
    /\ d_lr' = MultiStepLR_get_lr(d_learning_rate, 0, config.d_milestones, d_lr_gamma)
    /\ g_lr' = MultiStepLR_get_lr(g_learning_rate, 0, config.g_milestones, g_lr_gamma)
    /\ d_losses' = <<>> /\ g_losses' = <<>>
    /\ d_loss' = NoLoss /\ g_loss' = NoLoss
    /\ fixed_latent_vector' = randn(advance(rng, 4))
    /\ rng' = advance(rng, 5)
    /\ epoch' = 0 /\ idx' = 0 /\ k' = 0
    /\ pc' = "epoch_head"
    /\ outcome' = NoOutcome
    /\ probe' = NoProbe
    /\ round_trip' = NoRoundTrip
    /\ UNCHANGED <<config, self_model, model_file, samples, losses_plot>>

\* line 119: for epoch in range(config.training.epochs)
EpochsOffByOne(e) == e + 1 < config.epochs
EpochsRemain(e) == e < config.epochs

\* lines 119-122: enter the next epoch (the shuffling loader draws from the
\* generator), or leave the loop
EpochHead ==
    /\ pc = "epoch_head"
    /\ IF EpochsRemain(epoch)
         THEN /\ pc' = "batch_head"
              /\ idx' = 0
              /\ rng' = advance(rng, 1)
         ELSE /\ pc' = "final_eval"
              /\ UNCHANGED <<idx, rng>>
    /\ UNCHANGED <<config, heap, self_model, model_file, g_model, d_updates,
                   epoch, k, d_loss, g_loss, d_losses, g_losses, d_lr, g_lr,
                   d_last_epoch, g_last_epoch, fixed_latent_vector, artifacts,
                   outcome, round_trip, probe>>

\* lines 122-130: next batch of the loader, or the end of the epoch
BatchHead ==
    /\ pc = "batch_head"
    /\ IF idx < config.batches
         THEN /\ pc' = "d_loop"
              /\ d_loss' = NoLoss
              /\ k' = 0
         ELSE /\ pc' = "sched"
              /\ UNCHANGED <<d_loss, k>>
    /\ UNCHANGED <<config, heap, self_model, model_file, rng, g_model, d_updates,
                   epoch, idx, g_loss, d_losses, g_losses, d_lr, g_lr,
                   d_last_epoch, g_last_epoch, fixed_latent_vector, artifacts,
                   outcome, round_trip, probe>>

\* line 131: for _ in range(config.training.d_loop_num)
DLoopOneMore(i) == i <= config.d_loop_num
DLoopRemain(i) == i < config.d_loop_num

\* line 141: for _ in range(config.training.g_loop_num)
GLoopRemain(i) == i < config.g_loop_num

\* lines 131-137: one discriminator update (fake images from fresh latents);
\* the loss is identified by the update that produced it
DStep ==
    /\ pc = "d_loop" /\ DLoopRemain(k)
    /\ d_updates' = d_updates + 1
    /\ d_loss' = d_updates + 1
    /\ rng' = advance(rng, 1)
    /\ k' = k + 1
    /\ UNCHANGED <<config, heap, self_model, model_file, pc, g_model, epoch, idx,
                   g_loss, d_losses, g_losses, d_lr, g_lr, d_last_epoch,
                   g_last_epoch, fixed_latent_vector, artifacts, outcome, round_trip, probe>>

\* lines 138, 147: losses.append(loss)
KeepLast(losses, loss) == <<loss>>
AppendLoss(losses, loss) == Append(losses, loss)

\* lines 138-140: record the batch's discriminator loss, start the generator loop
DAppend ==
    /\ pc = "d_loop" /\ ~DLoopRemain(k)
    /\ d_losses' = AppendLoss(d_losses, d_loss)
    /\ g_loss' = NoLoss
    /\ k' = 0
    /\ pc' = "g_loop"
    /\ UNCHANGED <<config, heap, self_model, model_file, rng, g_model, d_updates,
                   epoch, idx, d_loss, g_losses, d_lr, g_lr, d_last_epoch,
                   g_last_epoch, fixed_latent_vector, artifacts, outcome, round_trip, probe>>

\* lines 141-146: one generator update, in place on g_model
GStep ==
    /\ pc = "g_loop" /\ GLoopRemain(k)
    /\ heap' = [heap EXCEPT ![g_model].steps = @ + 1]
    /\ g_loss' = heap[g_model].steps + 1
    /\ rng' = advance(rng, 1)
    /\ k' = k + 1
    /\ UNCHANGED <<config, self_model, model_file, pc, g_model, d_updates, epoch,
                   idx, d_loss, d_losses, g_losses, d_lr, g_lr, d_last_epoch,
                   g_last_epoch, fixed_latent_vector, artifacts, outcome, round_trip, probe>>

\* line 147: record the batch's generator loss, go to the next batch
GAppend ==
    /\ pc = "g_loop" /\ ~GLoopRemain(k)
    /\ g_losses' = AppendLoss(g_losses, g_loss)
    /\ idx' = idx + 1
    /\ pc' = "batch_head"
    /\ UNCHANGED <<config, heap, self_model, model_file, rng, g_model, d_updates,
                   epoch, k, d_loss, g_loss, d_losses, d_lr, g_lr, d_last_epoch,
                   g_last_epoch, fixed_latent_vector, artifacts, outcome, round_trip, probe>>

\* an exception raised by a batch step (train_d_model / train_g_model) is not
\* caught: train() is left with self.model as it is at that point
BatchStepRaises ==
    /\ \/ pc = "d_loop" /\ DLoopRemain(k)
       \/ pc = "g_loop" /\ GLoopRemain(k)
    /\ LeaveTrain(heap, {self_model})
    /\ outcome' = Raised("train", "RuntimeError")
    /\ UNCHANGED <<config, self_model, model_file, rng, artifacts, round_trip, probe>>

\* lines 149-150: d_lr_scheduler.step(); g_lr_scheduler.step()
SchedStep ==
    /\ pc = "sched"
    /\ d_last_epoch' = d_last_epoch + 1
    /\ g_last_epoch' = g_last_epoch + 1
    /\ d_lr' = MultiStepLR_get_lr(d_lr, d_last_epoch + 1, config.d_milestones, d_lr_gamma)
    /\ g_lr' = MultiStepLR_get_lr(g_lr, g_last_epoch + 1, config.g_milestones, g_lr_gamma)
    /\ pc' = "report"
    /\ UNCHANGED <<config, heap, self_model, model_file, rng, g_model, d_updates,
                   epoch, idx, k, d_loss, g_loss, d_losses, g_losses,
                   fixed_latent_vector, artifacts, outcome, round_trip, probe>>

\* lines 154, 156: d_losses[-1] raises IndexError on an empty list
NeverRaises(losses) == FALSE
LastRaises(losses) == Len(losses) = 0

\* lines 152-158: the epoch's report reads the last entry of both histories
Report ==
    /\ pc = "report"
    /\ IF LastRaises(d_losses) \/ LastRaises(g_losses)
         THEN /\ LeaveTrain(heap, {self_model})
              /\ outcome' = Raised("train", "IndexError")
         ELSE /\ pc' = "plot"
              /\ UNCHANGED <<heap, train_locals, outcome>>
    /\ UNCHANGED <<config, self_model, model_file, rng, artifacts, round_trip, probe>>

\* lines 160-168: losses.jpg is redrawn from the whole histories
PlotLosses ==
    /\ pc = "plot"
    /\ losses_plot' = [exists |-> TRUE, data |-> <<g_losses, d_losses>>]
    /\ pc' = "sample"
    /\ UNCHANGED <<config, heap, self_model, model_file, rng, train_locals,
                   samples, trains, outcome, round_trip, probe>>

\* line 174: the latent batch the sample grid is generated from
FreshLatent == randn(rng)
GridLatent == fixed_latent_vector

\* lines 170-176: g_model.eval(); save_samples(E<epoch+1>.jpg); g_model.train()
SaveSamples ==
    /\ pc = "sample"
    /\ samples' = [samples EXCEPT ![epoch + 1] =
                     [exists |-> TRUE, data |-> forward(heap[g_model], GridLatent)]]
    /\ heap' = [heap EXCEPT ![g_model].training = TRUE]
    /\ pc' = "checkpoint"
    /\ UNCHANGED <<config, self_model, model_file, rng, train_locals, losses_plot,
                   trains, outcome, round_trip, probe>>

\* lines 178-179: self.model = g_model; self.save_model(); next epoch
Checkpoint ==
    /\ pc = "checkpoint"
    /\ self_model' = g_model
    /\ heap' = Collect(heap, {g_model})
    /\ model_file' = save_model_file(heap[g_model])
    /\ epoch' = epoch + 1
    /\ pc' = "epoch_head"
    /\ UNCHANGED <<config, rng, g_model, d_updates, idx, k, d_loss, g_loss,
                   d_losses, g_losses, d_lr, g_lr, d_last_epoch, g_last_epoch,
                   fixed_latent_vector, artifacts, outcome, round_trip, probe>>

\* line 181: self.model.eval(), AttributeError when self.model is None
FinalEval ==
    /\ pc = "final_eval"
    /\ IF self_model = NoObj
         THEN /\ LeaveTrain(heap, {})
              /\ outcome' = Raised("train", "AttributeError")
         ELSE /\ LeaveTrain([heap EXCEPT ![self_model].training = FALSE], {self_model})
              /\ outcome' = Ok("train")
    /\ UNCHANGED <<config, self_model, model_file, rng, artifacts, round_trip, probe>>

TrainStep ==
    \/ EpochHead \/ BatchHead \/ DStep \/ DAppend \/ GStep \/ GAppend
    \/ SchedStep \/ Report \/ PlotLosses \/ SaveSamples \/ Checkpoint \/ FinalEval

Next ==
    \/ load_model
    \/ save_model
    \/ Generate
    \/ TrainPrepare
    \/ EpochHead
    \/ BatchHead
    \/ DStep
    \/ DAppend
    \/ GStep
    \/ GAppend
    \/ BatchStepRaises
    \/ SchedStep
    \/ Report
    \/ PlotLosses
    \/ SaveSamples
    \/ Checkpoint
    \/ FinalEval

Spec == Init /\ [][Next]_vars

\* train() is sequential code: a step that can run does run
FairSpec == Spec /\ WF_vars(TrainStep)

(* ------------------------------ claims --------------------------------- *)

InTrain == pc # "idle"
E == config.epochs
B == config.batches
Kd == config.d_loop_num
Kg == config.g_loop_num
GSteps == heap[g_model].steps

C2_EvalBetweenCalls ==
    (pc = "idle" /\ self_model # NoObj) => ~heap[self_model].training

\* C3: train() leaves its epoch loop only after exactly E epochs of B batches
\* each, a train() that returns leaves self.model in evaluation mode, and
\* every train() call ends.
C3_RunsAllEpochsAndStops ==
    /\ [](pc = "final_eval" => (epoch = E /\ Len(g_losses) = E * B /\ d_updates = E * B * Kd))
    /\ [](outcome = Ok("train") => (pc = "idle" /\ self_model # NoObj
                                     /\ ~heap[self_model].training))
    /\ (InTrain ~> ~InTrain)

C3_Witness ==
    /\ outcome = Ok("train") /\ E = MaxEpochs /\ B = MaxBatches
    /\ model_file.exists /\ model_file.data[2] = E * B * Kg

\* C4: inside train() the checkpoint file is written by the end-of-epoch
\* checkpoint step only; once an epoch has completed it holds the generator's
\* weights as of the end of the last completed epoch; and a train() that
\* raises leaves the file as it was.
C4_CheckpointPerEpoch ==
    /\ []((InTrain /\ epoch >= 1) =>
            model_file = [exists |-> TRUE,
                          data |-> <<heap[g_model].init, epoch * B * Kg>>])
    /\ [][(InTrain /\ pc # "checkpoint") => model_file' = model_file]_vars

C4_Witness ==
    /\ outcome = Raised("train", "RuntimeError")
    /\ self_model # NoObj /\ model_file.exists
    /\ model_file.data[1] = heap[self_model].init
    /\ model_file.data[2] < heap[self_model].steps

\* number of sample grids written by the current train() call
GridsWritten == IF pc = "checkpoint" THEN epoch + 1 ELSE epoch

\* C5: the latent batch of the sample grid is not reassigned while train()
\* runs, and the grid of every epoch is the generator, with its weights at the
\* end of that epoch, applied to that same latent batch.
C5_FixedLatent ==
    /\ [](InTrain => \A e \in 1..GridsWritten :
            samples[e] = [exists |-> TRUE,
                          data |-> <<heap[g_model].init, e * B * Kg, fixed_latent_vector>>])
    /\ [][(InTrain /\ pc' # "idle") => fixed_latent_vector' = fixed_latent_vector]_vars

C5_Witness ==
    /\ pc = "checkpoint" /\ epoch = 1
    /\ samples[1].data[3] = samples[2].data[3]
    /\ samples[1].data[2] # samples[2].data[2]
    /\ samples[2].data[3] = fixed_latent_vector

RECURSIVE Pow(_, _)
Pow(b, n) == IF n = 0 THEN 1 ELSE b * Pow(b, n - 1)

\* the rate of a schedule after n steps
ScheduledLr(base, gamma, milestones, n) ==
    base * Pow(gamma, Cardinality({m \in milestones : m <= n}))

\* C6: inside train() each schedule has been stepped once per completed
\* epoch (after the batches of the epoch), and each network's learning rate
\* is its base rate times its decay factor once per milestone of that network
\* crossed so far.
C6_LrSchedule ==
    InTrain =>
        LET stepped == IF pc \in {"report", "plot", "sample", "checkpoint"}
                         THEN epoch + 1 ELSE epoch
        IN  /\ d_last_epoch = stepped
            /\ g_last_epoch = stepped
            /\ d_lr = ScheduledLr(d_learning_rate, d_lr_gamma, config.d_milestones, stepped)
            /\ g_lr = ScheduledLr(g_learning_rate, g_lr_gamma, config.g_milestones, stepped)

C6_Witness ==
    /\ pc = "d_loop" /\ epoch = 1 /\ k = 1
    /\ 1 \in config.d_milestones /\ 1 \notin config.g_milestones
    /\ d_lr = d_learning_rate * d_lr_gamma
    /\ g_lr = g_learning_rate

\* batches completed by the current train() call
BatchesDone == epoch * B + idx

\* C7: in every batch the Kd discriminator updates come first and the Kg
\* generator updates follow; the next batch starts after them.
C7_UpdateOrder ==
    /\ pc = "d_loop" => /\ k <= Kd
                        /\ d_updates = BatchesDone * Kd + k
                        /\ GSteps = BatchesDone * Kg
    /\ pc = "g_loop" => /\ k <= Kg
                        /\ d_updates = (BatchesDone + 1) * Kd
                        /\ GSteps = BatchesDone * Kg + k
    /\ pc = "batch_head" => /\ d_updates = BatchesDone * Kd
                            /\ GSteps = BatchesDone * Kg

C7_Witness ==
    pc = "g_loop" /\ epoch = 1 /\ idx = 1 /\ k = Kg /\ Kd >= 2 /\ d_updates = 4 * Kd

\* C8: after save_model() directly followed by load_model(), self.model has
\* the parameter values it had when save_model() was called.
C8_RoundTrip ==
    round_trip.stage = "loaded" =>
        (self_model # NoObj /\ Weights(heap[self_model]) = round_trip.w)

C8_Witness ==
    round_trip.stage = "loaded" /\ round_trip.w[2] > 0 /\ outcome = Ok("load_model")

\* C9: over consecutive generate() calls, every call generate(seed = S)
\* returns the output the first such call returned.
C9_SeedDeterminism ==
    probe.n > 0 => probe.last = probe.first

C9_Witness ==
    probe.n = 2 /\ probe.between /\ probe.last = probe.first

\* C10: with no batch per epoch and at least one epoch, train() never reaches
\* the plot, the sample grid, the checkpoint or its end; it changes neither
\* self.model nor any file; and it ends by the IndexError of the first epoch's
\* report.
C10_EmptyLoader ==
    /\ []((B = 0 /\ E >= 1) =>
            /\ pc \notin {"plot", "sample", "checkpoint", "final_eval"}
            /\ outcome # Ok("train"))
    /\ [][(B = 0 /\ E >= 1 /\ InTrain) =>
            /\ self_model' = self_model
            /\ (self_model # NoObj => heap'[self_model] = heap[self_model])
            /\ model_file' = model_file
            /\ samples' = samples
            /\ losses_plot' = losses_plot
            /\ (pc' = "idle" => (pc = "report" /\ epoch = 0
                                 /\ outcome' = Raised("train", "IndexError")))]_vars

C10_Witness ==
    B = 0 /\ E >= 1 /\ outcome = Raised("train", "IndexError") /\ self_model # NoObj

=============================================================================
